---- MODULE Spec2Model ----
(***************************************************************************)
(* Model of examples/vlm_embeddings_examples.ipynb: a notebook that loads  *)
(* an image, encodes it as a PNG data URI, asks an OpenAI-compatible       *)
(* embeddings endpoint for one multimodal and one text-only embedding,     *)
(* and prints their dot product.                                           *)
(*                                                                         *)
(* Strings are sequences of one-character strings, bytes are 0..255.       *)
(* Floating-point components are fixed-point integers in units of 1/5, so  *)
(* a product is in units of 1/25 and 25 stands for 1.0.                    *)
(***************************************************************************)
EXTENDS Integers, Sequences, FiniteSets, TLC

VARIABLES pc, image, image_uri, requests, inflight, outcomes,
          image_embedding, text_embedding, similarity, stdout, error

vars == <<pc, image, image_uri, requests, inflight, outcomes,
          image_embedding, text_embedding, similarity, stdout, error>>

----------------------------------------------------------------------------
(* Bounds of the model *)

MaxWidth == 2
MaxHeight == 2
MaxDim == 2
MaxData == 1

----------------------------------------------------------------------------
(* Images (PIL.Image.Image): source format, mode, size, raster of channel  *)
(* bytes in row-major order.                                               *)

Modes == {"L", "RGB", "RGBA", "CMYK"}

Channels(mode) ==
    CASE mode = "L" -> 1
      [] mode = "RGB" -> 3
      [] mode = "RGBA" -> 4
      [] mode = "CMYK" -> 4

\* the pixel values the inputs are drawn from
Palette(mode) ==
    CASE mode = "L" -> {<<0>>, <<255>>}
      [] mode = "RGB" -> {<<0, 255, 0>>, <<255, 255, 255>>}
      [] mode = "RGBA" -> {<<0, 255, 0, 128>>}
      [] mode = "CMYK" -> {<<255, 0, 255, 0>>}

\* the modes a decoder of each file format produces
FormatModes(format) ==
    CASE format = "JPEG" -> {"L", "RGB", "CMYK"}
      [] format = "PNG" -> {"L", "RGB", "RGBA"}

Flat(px, ch) ==
    [i \in 1..(Len(px) * ch) |-> px[((i - 1) \div ch) + 1][((i - 1) % ch) + 1]]

ImageInputs ==
    UNION { UNION { UNION { UNION {
        { [format |-> f, mode |-> m, width |-> w, height |-> h,
           pixels |-> Flat(px, Channels(m))] :
             px \in [1..(w * h) -> Palette(m)] } :
        h \in 1..MaxHeight } : w \in 1..MaxWidth } :
        m \in FormatModes(f) } : f \in {"JPEG", "PNG"} }

NoImage == [format |-> "none", mode |-> "none", width |-> 0, height |-> 0,
            pixels |-> <<>>]

\* what Image.open("images/green_dog.jpeg") can yield: a one-pixel JPEG
FileImages ==
    { i \in ImageInputs : i.format = "JPEG" /\ i.width = 1 /\ i.height = 1 }

----------------------------------------------------------------------------
(* image.save(buffer, format="PNG"): signature, header (width, height, bit *)
(* depth, colour type), then one scanline per row, each led by its filter  *)
(* byte.  Chunk framing, checksums and compression are left out.           *)

PNG_SIGNATURE == <<137, 80, 78, 71, 13, 10, 26, 10>>

PngModes == {"L", "RGB", "RGBA"}

ColorType(mode) ==
    CASE mode = "L" -> 0
      [] mode = "RGB" -> 2
      [] mode = "RGBA" -> 6

RECURSIVE Scanlines(_, _, _)
Scanlines(pixels, rowlen, rows) ==
    IF rows = 0 THEN <<>>
    ELSE <<0>> \o SubSeq(pixels, 1, rowlen)
         \o Scanlines(SubSeq(pixels, rowlen + 1, Len(pixels)), rowlen, rows - 1)

\* a PNG writer that keeps only the first channel of every pixel
PngSaveGrey(img) ==
    [ok |-> img.mode \in PngModes,
     bytes |-> IF img.mode \in PngModes
               THEN PNG_SIGNATURE
                    \o <<img.width, img.height, 8, ColorType(img.mode)>>
                    \o Scanlines([i \in 1..Len(img.pixels) |->
                                    img.pixels[((i - 1) \div Channels(img.mode))
                                               * Channels(img.mode) + 1]],
                                 img.width * Channels(img.mode), img.height)
               ELSE <<>>]

PngSave(img) ==
    [ok |-> img.mode \in PngModes,
     bytes |-> IF img.mode \in PngModes
               THEN PNG_SIGNATURE
                    \o <<img.width, img.height, 8, ColorType(img.mode)>>
                    \o Scanlines(img.pixels, img.width * Channels(img.mode),
                                 img.height)
               ELSE <<>>]

----------------------------------------------------------------------------
(* base64.b64encode: standard alphabet, "=" padding *)

B64_ALPHABET ==
    <<"A", "B", "C", "D", "E", "F", "G", "H", "I", "J", "K", "L", "M", "N", "O", "P",
      "Q", "R", "S", "T", "U", "V", "W", "X", "Y", "Z", "a", "b", "c", "d", "e", "f",
      "g", "h", "i", "j", "k", "l", "m", "n", "o", "p", "q", "r", "s", "t", "u", "v",
      "w", "x", "y", "z", "0", "1", "2", "3", "4", "5", "6", "7", "8", "9", "+", "/">>

B64Char(v) == B64_ALPHABET[v + 1]

RECURSIVE b64encode_nopad(_)
\* an encoder that drops the padding of the last group
b64encode_nopad(bs) ==
    IF Len(bs) = 0 THEN <<>>
    ELSE IF Len(bs) = 1
    THEN <<B64Char(bs[1] \div 4), B64Char((bs[1] % 4) * 16)>>
    ELSE IF Len(bs) = 2
    THEN <<B64Char(bs[1] \div 4),
           B64Char((bs[1] % 4) * 16 + bs[2] \div 16),
           B64Char((bs[2] % 16) * 4)>>
    ELSE <<B64Char(bs[1] \div 4),
           B64Char((bs[1] % 4) * 16 + bs[2] \div 16),
           B64Char((bs[2] % 16) * 4 + bs[3] \div 64),
           B64Char(bs[3] % 64)>>
         \o b64encode_nopad(SubSeq(bs, 4, Len(bs)))

RECURSIVE b64encode(_)
b64encode(bs) ==
    IF Len(bs) = 0 THEN <<>>
    ELSE IF Len(bs) = 1
    THEN <<B64Char(bs[1] \div 4), B64Char((bs[1] % 4) * 16), "=", "=">>
    ELSE IF Len(bs) = 2
    THEN <<B64Char(bs[1] \div 4),
           B64Char((bs[1] % 4) * 16 + bs[2] \div 16),
           B64Char((bs[2] % 16) * 4), "=">>
    ELSE <<B64Char(bs[1] \div 4),
           B64Char((bs[1] % 4) * 16 + bs[2] \div 16),
           B64Char((bs[2] % 16) * 4 + bs[3] \div 64),
           B64Char(bs[3] % 64)>>
         \o b64encode(SubSeq(bs, 4, Len(bs)))

----------------------------------------------------------------------------
(* image_to_base64 *)

DATA == <<"d", "a", "t", "a", ":">>
MIME_PNG == <<"i", "m", "a", "g", "e", "/", "p", "n", "g">>
BASE64_TAG == <<";", "b", "a", "s", "e", "6", "4", ",">>

\* the result of a call: the value returned, or the exception raised
image_to_base64(img) ==
    LET saved == PngSave(img)
    IN  IF saved.ok
        THEN [error |-> "none",
              value |-> DATA \o MIME_PNG \o BASE64_TAG \o b64encode(saved.bytes)]
        ELSE [error |-> "OSError", value |-> <<>>]

----------------------------------------------------------------------------
(* Embedding vectors and the similarity scorer *)

Components == {-4, 0, 3}

Vectors == UNION { [1..n -> Components] : n \in 0..MaxDim }

\* 1.0 in the unit of a product of two components
ONE == 5 * 5

np_array(a) == [shape |-> <<Len(a)>>, data |-> a]

RECURSIVE SumProducts(_, _, _)
SumProducts(x, y, n) ==
    IF n = 0 THEN 0 ELSE SumProducts(x, y, n - 1) + x[n] * y[n]

RECURSIVE SumProductsFirst(_, _, _)
SumProductsFirst(x, y, n) ==
    IF n = 0 THEN 0 ELSE SumProductsFirst(x, y, n - 1) + x[n] * y[1]

Min(m, n) == IF m < n THEN m ELSE n

\* a dot product that pairs the elements up and stops at the shorter vector
np_dot_zip(x, y) ==
    [error |-> "none",
     value |-> SumProducts(x.data, y.data, Min(x.shape[1], y.shape[1]))]

\* a dot product that never advances the index into its second argument
np_dot_first(x, y) ==
    IF x.shape # y.shape
    THEN [error |-> "ValueError", value |-> 0]
    ELSE [error |-> "none", value |-> SumProductsFirst(x.data, y.data, x.shape[1])]

np_dot(x, y) ==
    IF x.shape # y.shape
    THEN [error |-> "ValueError", value |-> 0]
    ELSE [error |-> "none", value |-> SumProducts(x.data, y.data, x.shape[1])]

ISqrt(n) == CHOOSE r \in 0..n : r * r <= n /\ n < (r + 1) * (r + 1)

\* a scorer that divides the dot product by the two norms
cosine_similarity_normalized(a, b) ==
    LET d == np_dot(np_array(a), np_array(b))
        na == np_dot(np_array(a), np_array(a)).value
        nb == np_dot(np_array(b), np_array(b)).value
    IN  IF d.error # "none" \/ na * nb = 0 THEN d
        ELSE [error |-> "none", value |-> (d.value * ONE) \div ISqrt(na * nb)]

cosine_similarity(a, b) == np_dot(np_array(a), np_array(b))

----------------------------------------------------------------------------
(* The embeddings endpoint seen from the client *)

PROMPT == "Describe the image in detail"
TEXT == "A green dog looking at the camera"
MODEL == "mlx-community/Qwen2.5-VL-3B-Instruct-4bit"

ImageRequest(uri) == [input |-> <<PROMPT>>, model |-> MODEL, image_url |-> uri]

TextRequest == [input |-> <<TEXT>>, model |-> MODEL]

DataLists == UNION { [1..n -> [embedding : Vectors]] : n \in 0..MaxData }

\* what one embeddings call can meet: no connection, a non-2xx status, or a
\* 2xx response with a list of results
Responses ==
    {[kind |-> "connection_error", data |-> <<>>],
     [kind |-> "status_error", data |-> <<>>]}
    \cup {[kind |-> "ok", data |-> d] : d \in DataLists}

\* client.embeddings.create(...).data[0].embedding
first_embedding(resp) ==
    CASE resp.kind = "connection_error" ->
           [error |-> "APIConnectionError", value |-> <<>>]
      [] resp.kind = "status_error" ->
           [error |-> "APIStatusError", value |-> <<>>]
      [] resp.kind = "ok" /\ Len(resp.data) = 0 ->
           [error |-> "IndexError", value |-> <<>>]
      [] OTHER -> [error |-> "none", value |-> resp.data[1].embedding]

Outcome(resp) == [kind |-> resp.kind, results |-> Len(resp.data)]

----------------------------------------------------------------------------
(* The notebook, cell by cell *)

Init ==
    /\ pc = "load"
    /\ image = NoImage
    /\ image_uri = <<>>
    /\ requests = <<>>
    /\ inflight = <<>>
    /\ outcomes = <<>>
    /\ image_embedding = <<>>
    /\ text_embedding = <<>>
    /\ similarity = <<>>
    /\ stdout = <<>>
    /\ error = "none"

\* image = Image.open("images/green_dog.jpeg")
Load ==
    /\ pc = "load"
    /\ \/ \E img \in FileImages :
            /\ image' = img
            /\ pc' = "encode"
            /\ error' = error
       \/ /\ image' = image
          /\ pc' = "aborted"
          /\ error' = "FileNotFoundError"
    /\ UNCHANGED <<image_uri, requests, inflight, outcomes, image_embedding,
                   text_embedding, similarity, stdout>>

\* image_uri = image_to_base64(image)
Encode ==
    /\ pc = "encode"
    /\ LET r == image_to_base64(image)
       IN  IF r.error = "none"
           THEN /\ image_uri' = r.value
                /\ pc' = "request_image"
                /\ error' = error
           ELSE /\ image_uri' = image_uri
                /\ pc' = "aborted"
                /\ error' = r.error
    /\ UNCHANGED <<image, requests, inflight, outcomes, image_embedding,
                   text_embedding, similarity, stdout>>

\* a cell that fires both requests before waiting for either response
SendBothRequests ==
    /\ pc = "request_image"
    /\ requests' = requests \o <<ImageRequest(image_uri), TextRequest>>
    /\ inflight' = inflight \o <<ImageRequest(image_uri), TextRequest>>
    /\ pc' = "await_image"
    /\ UNCHANGED <<image, image_uri, outcomes, image_embedding, text_embedding,
                   similarity, stdout, error>>

\* client.embeddings.create(input=[prompt], model=..., extra_body={...}): sent
SendImageRequest ==
    /\ pc = "request_image"
    /\ requests' = Append(requests, ImageRequest(image_uri))
    /\ inflight' = Append(inflight, ImageRequest(image_uri))
    /\ pc' = "await_image"
    /\ UNCHANGED <<image, image_uri, outcomes, image_embedding, text_embedding,
                   similarity, stdout, error>>

\* a cell that catches the failure and goes on with an empty embedding
ReceiveImageResponseSwallow ==
    /\ pc = "await_image"
    /\ \E resp \in Responses :
         LET r == first_embedding(resp)
         IN  /\ outcomes' = Append(outcomes, Outcome(resp))
             /\ inflight' = Tail(inflight)
             /\ image_embedding' = <<r.value>>
             /\ pc' = "request_text"
             /\ error' = error
    /\ UNCHANGED <<image, image_uri, requests, text_embedding, similarity, stdout>>

\* image_embedding = <response>.data[0].embedding
ReceiveImageResponse ==
    /\ pc = "await_image"
    /\ \E resp \in Responses :
         LET r == first_embedding(resp)
         IN  /\ outcomes' = Append(outcomes, Outcome(resp))
             /\ inflight' = Tail(inflight)
             /\ IF r.error = "none"
                THEN /\ image_embedding' = <<r.value>>
                     /\ pc' = "request_text"
                     /\ error' = error
                ELSE /\ image_embedding' = image_embedding
                     /\ pc' = "aborted"
                     /\ error' = r.error
    /\ UNCHANGED <<image, image_uri, requests, text_embedding, similarity, stdout>>

\* a text request that carries the image along as well
SendTextRequestWithImage ==
    /\ pc = "request_text"
    /\ requests' = Append(requests, [input |-> <<TEXT>>, model |-> MODEL,
                                     image_url |-> image_uri])
    /\ inflight' = Append(inflight, [input |-> <<TEXT>>, model |-> MODEL,
                                     image_url |-> image_uri])
    /\ pc' = "await_text"
    /\ UNCHANGED <<image, image_uri, outcomes, image_embedding, text_embedding,
                   similarity, stdout, error>>

\* client.embeddings.create(input=[text], model=...): sent
SendTextRequest ==
    /\ pc = "request_text"
    /\ requests' = Append(requests, TextRequest)
    /\ inflight' = Append(inflight, TextRequest)
    /\ pc' = "await_text"
    /\ UNCHANGED <<image, image_uri, outcomes, image_embedding, text_embedding,
                   similarity, stdout, error>>

\* a cell that sends the request again when it has failed
ReceiveTextResponseRetry ==
    /\ pc = "await_text"
    /\ \E resp \in Responses :
         LET r == first_embedding(resp)
         IN  /\ outcomes' = Append(outcomes, Outcome(resp))
             /\ inflight' = Tail(inflight)
             /\ IF r.error = "none"
                THEN /\ text_embedding' = <<r.value>>
                     /\ pc' = "score"
                ELSE /\ text_embedding' = text_embedding
                     /\ pc' = "request_text"
             /\ error' = error
    /\ UNCHANGED <<image, image_uri, requests, image_embedding, similarity, stdout>>

\* text_embedding = <response>.data[0].embedding
ReceiveTextResponse ==
    /\ pc = "await_text"
    /\ \E resp \in Responses :
         LET r == first_embedding(resp)
         IN  /\ outcomes' = Append(outcomes, Outcome(resp))
             /\ inflight' = Tail(inflight)
             /\ IF r.error = "none"
                THEN /\ text_embedding' = <<r.value>>
                     /\ pc' = "score"
                     /\ error' = error
                ELSE /\ text_embedding' = text_embedding
                     /\ pc' = "aborted"
                     /\ error' = r.error
    /\ UNCHANGED <<image, image_uri, requests, image_embedding, similarity, stdout>>

\* similarity = cosine_similarity(image_embedding, text_embedding)
Score ==
    /\ pc = "score"
    /\ LET r == cosine_similarity(image_embedding[1], text_embedding[1])
       IN  IF r.error = "none"
           THEN /\ similarity' = <<r.value>>
                /\ pc' = "report"
                /\ error' = error
           ELSE /\ similarity' = similarity
                /\ pc' = "aborted"
                /\ error' = r.error
    /\ UNCHANGED <<image, image_uri, requests, inflight, outcomes,
                   image_embedding, text_embedding, stdout>>

\* print(similarity)
Report ==
    /\ pc = "report"
    /\ stdout' = Append(stdout, similarity[1])
    /\ pc' = "done"
    /\ UNCHANGED <<image, image_uri, requests, inflight, outcomes,
                   image_embedding, text_embedding, similarity, error>>

Next ==
    \/ Load
    \/ Encode
    \/ SendImageRequest
    \/ ReceiveImageResponse
    \/ SendTextRequest
    \/ ReceiveTextResponse
    \/ Score
    \/ Report

Spec == Init /\ [][Next]_vars

(* The encoder on its own: any image of the bounded input set is encoded. *)

EncInit ==
    /\ pc = "encode"
    /\ image \in ImageInputs
    /\ image_uri = <<>>
    /\ requests = <<>>
    /\ inflight = <<>>
    /\ outcomes = <<>>
    /\ image_embedding = <<>>
    /\ text_embedding = <<>>
    /\ similarity = <<>>
    /\ stdout = <<>>
    /\ error = "none"

EncNext == Encode

EncSpec == EncInit /\ [][EncNext]_vars

----------------------------------------------------------------------------
(* Reading a data URI back: the inverse of each stage of the encoder *)

B64Val(c) == CHOOSE v \in 0..63 : B64_ALPHABET[v + 1] = c

RECURSIVE b64decode(_)
b64decode(cs) ==
    IF Len(cs) = 0 THEN <<>>
    ELSE IF cs[3] = "="
    THEN <<B64Val(cs[1]) * 4 + B64Val(cs[2]) \div 16>>
    ELSE IF cs[4] = "="
    THEN <<B64Val(cs[1]) * 4 + B64Val(cs[2]) \div 16,
           (B64Val(cs[2]) % 16) * 16 + B64Val(cs[3]) \div 4>>
    ELSE <<B64Val(cs[1]) * 4 + B64Val(cs[2]) \div 16,
           (B64Val(cs[2]) % 16) * 16 + B64Val(cs[3]) \div 4,
           (B64Val(cs[3]) % 4) * 64 + B64Val(cs[4])>>
         \o b64decode(SubSeq(cs, 5, Len(cs)))

RECURSIVE Unscan(_, _, _)
Unscan(data, rowlen, rows) ==
    IF rows = 0 THEN <<>>
    ELSE SubSeq(data, 2, rowlen + 1)
         \o Unscan(SubSeq(data, rowlen + 2, Len(data)), rowlen, rows - 1)

PngLoad(bytes) ==
    LET w == bytes[Len(PNG_SIGNATURE) + 1]
        h == bytes[Len(PNG_SIGNATURE) + 2]
        m == CHOOSE mode \in PngModes :
                 ColorType(mode) = bytes[Len(PNG_SIGNATURE) + 4]
    IN  [format |-> "PNG", mode |-> m, width |-> w, height |-> h,
         pixels |-> Unscan(SubSeq(bytes, Len(PNG_SIGNATURE) + 5, Len(bytes)),
                           w * Channels(m), h)]

\* the decoded raster of an image: what the source format leaves behind
Raster(img) == [mode |-> img.mode, width |-> img.width, height |-> img.height,
                pixels |-> img.pixels]

DATA_URI_PREFIX ==
    <<"d", "a", "t", "a", ":", "i", "m", "a", "g", "e", "/", "p", "n", "g",
      ";", "b", "a", "s", "e", "6", "4", ",">>

Payload(uri) == SubSeq(uri, Len(DATA_URI_PREFIX) + 1, Len(uri))

Range(seq) == { seq[i] : i \in 1..Len(seq) }

----------------------------------------------------------------------------
(* The encoder, checked under EncSpec *)

\* C1: for every image that image_to_base64 encodes, base64-decoding the
\* payload after the prefix and parsing the bytes as PNG gives back the
\* image's raster (mode, size and every channel byte): the round trip is
\* lossless.
C1_RoundTrip ==
    image_uri # <<>> =>
        /\ SubSeq(b64decode(Payload(image_uri)), 1, Len(PNG_SIGNATURE))
             = PNG_SIGNATURE
        /\ Raster(PngLoad(b64decode(Payload(image_uri)))) = Raster(image)

\* a two-row, two-column colour image has gone through the encoder
C1_Witness ==
    /\ image_uri # <<>>
    /\ image.mode = "RGB" /\ image.width = 2 /\ image.height = 2
    /\ image.pixels[1] # image.pixels[4]

\* C2: whenever image_to_base64 returns, the string starts with the literal
\* "data:image/png;base64," and the rest is the padded standard-alphabet
\* base64 encoding of the PNG bytes, its length a multiple of 4, whatever
\* the source format of the image.
C2_PrefixAndBase64 ==
    image_uri # <<>> =>
        /\ Len(image_uri) >= Len(DATA_URI_PREFIX)
        /\ SubSeq(image_uri, 1, Len(DATA_URI_PREFIX)) = DATA_URI_PREFIX
        /\ Len(Payload(image_uri)) % 4 = 0
        /\ \A i \in 1..Len(Payload(image_uri)) :
             \/ Payload(image_uri)[i] \in Range(B64_ALPHABET)
             \/ /\ Payload(image_uri)[i] = "="
                /\ i >= Len(Payload(image_uri)) - 1
                /\ Payload(image_uri)[Len(Payload(image_uri))] = "="
        /\ b64decode(Payload(image_uri)) = PngSave(image).bytes
        /\ Len(PngSave(image).bytes) =
             (Len(Payload(image_uri)) \div 4) * 3
             - Cardinality({ i \in 1..Len(Payload(image_uri)) :
                               Payload(image_uri)[i] = "=" })

\* a JPEG-sourced image was encoded and its payload needed two padding characters
C2_Witness ==
    /\ image_uri # <<>>
    /\ image.format = "JPEG"
    /\ SubSeq(image_uri, Len(image_uri) - 1, Len(image_uri)) = <<"=", "=">>

----------------------------------------------------------------------------
(* The notebook, checked under Spec *)

Succeeded(o) == o.kind = "ok" /\ o.results >= 1

FirstPayloadShaped ==
    /\ DOMAIN requests[1] = {"input", "model", "image_url"}
    /\ requests[1].input = <<PROMPT>>
    /\ Len(requests[1].input) = 1
    /\ requests[1].model = MODEL
    /\ requests[1].image_url = image_to_base64(image).value
    /\ requests[1].image_url = image_uri

SecondPayloadShaped ==
    /\ DOMAIN requests[2] = {"input", "model"}
    /\ requests[2].input = <<TEXT>>
    /\ Len(requests[2].input) = 1
    /\ requests[2].model = requests[1].model

\* C3 as stated: every run that has ended has shaped exactly two payloads,
\* the first with input = [prompt], the model and image_url = the encoder's
\* data URI, the second with input = [text], the same model and no image.
C3_EveryRunTwoPayloads ==
    pc \in {"done", "aborted"} =>
        /\ Len(requests) = 2
        /\ FirstPayloadShaped
        /\ SecondPayloadShaped

\* C3 amended: a run shapes at most two payloads, and exactly two once the
\* first request has succeeded and the second has been issued; the first
\* payload shaped is always the image request (input = [prompt], the model,
\* image_url = the encoder's data URI for the loaded image), the second is
\* always the text request (input = [text], same model, no image field);
\* every run that gets to the score has shaped both.
C3_PayloadsShaped ==
    /\ Len(requests) <= 2
    /\ Len(requests) >= 1 => FirstPayloadShaped
    /\ Len(requests) >= 2 => SecondPayloadShaped
    /\ pc \in {"await_text", "score", "report", "done"} => Len(requests) = 2
    /\ text_embedding # <<>> => Len(requests) = 2

\* a run has finished with both payloads shaped
C3_Witness ==
    /\ pc = "done"
    /\ Len(requests) = 2
    /\ "image_url" \in DOMAIN requests[1]
    /\ "image_url" \notin DOMAIN requests[2]

\* C7: the steps happen in the order load, encode, multimodal request,
\* text-only request, score, report; the text-only request is sent only
\* after the multimodal response has been received, never more than one
\* request is in flight, and the score is computed only after both
\* responses have been received.
C7_Sequential ==
    /\ Len(inflight) <= 1
    /\ Len(requests) = Len(outcomes) + Len(inflight)
    /\ image_uri # <<>> => image # NoImage
    /\ Len(requests) >= 1 => image_uri # <<>>
    /\ Len(requests) >= 2 => (Len(outcomes) >= 1 /\ image_embedding # <<>>)
    /\ image_embedding # <<>> => Len(outcomes) >= 1
    /\ text_embedding # <<>> => Len(outcomes) = 2
    /\ similarity # <<>> =>
         /\ image_embedding # <<>> /\ text_embedding # <<>>
         /\ Len(outcomes) = 2 /\ inflight = <<>>
    /\ stdout # <<>> => similarity # <<>>

\* the text-only request is in flight, the multimodal response already in
C7_Witness ==
    /\ Len(inflight) = 1
    /\ inflight[1] = TextRequest
    /\ Len(outcomes) = 1
    /\ image_embedding # <<>>

\* C8: a failed embedding request aborts the run where it stands: nothing
\* after it has run (after a failed multimodal request no text request was
\* sent), no score was computed or printed; and a score is printed only
\* when both requests succeeded.
C8_NoPartialFailure ==
    /\ \A i \in 1..Len(outcomes) :
         ~Succeeded(outcomes[i]) =>
            /\ pc = "aborted"
            /\ error # "none"
            /\ i = Len(outcomes)
            /\ Len(requests) = i
            /\ inflight = <<>>
            /\ similarity = <<>>
            /\ stdout = <<>>
            /\ (i = 1 => image_embedding = <<>>)
            /\ text_embedding = <<>>
    /\ stdout # <<>> =>
         /\ Len(outcomes) = 2
         /\ Succeeded(outcomes[1])
         /\ Succeeded(outcomes[2])

\* the multimodal request has failed and the text request was never sent
C8_Witness ==
    /\ Len(outcomes) = 1
    /\ ~Succeeded(outcomes[1])
    /\ pc = "aborted"
    /\ Len(requests) = 1

RequestErrors == {"APIConnectionError", "APIStatusError"}

NoResend ==
    /\ Len(requests) = Len(outcomes) + Len(inflight)
    /\ \A i, j \in 1..Len(requests) : requests[i] = requests[j] => i = j

\* C9 as stated: whatever makes an embedding request fail (no connection, a
\* non-2xx status, a result list without a first element), the caller gets a
\* request error, and the request is not sent again.
C9_AllRequestErrors ==
    /\ NoResend
    /\ (Len(outcomes) >= 1 /\ ~Succeeded(outcomes[Len(outcomes)])) =>
         /\ pc = "aborted"
         /\ error \in RequestErrors

\* C9 amended: every failure of an embedding request reaches the caller
\* uncaught and the request is not sent again; a missing connection and a
\* non-2xx status arrive as the client's request errors, an empty result
\* list arrives as the IndexError of the indexing expression, which is not a
\* request error.
C9_FailuresSurface ==
    /\ NoResend
    /\ (Len(outcomes) >= 1 /\ ~Succeeded(outcomes[Len(outcomes)])) =>
         /\ pc = "aborted"
         /\ inflight = <<>>
         /\ outcomes[Len(outcomes)].kind = "connection_error"
              => error = "APIConnectionError"
         /\ outcomes[Len(outcomes)].kind = "status_error"
              => error = "APIStatusError"
         /\ outcomes[Len(outcomes)].kind = "ok" => error = "IndexError"
         /\ error \in RequestErrors <=> outcomes[Len(outcomes)].kind # "ok"

\* the text request got a 2xx response with an empty result list
C9_Witness ==
    /\ Len(outcomes) = 2
    /\ outcomes[2] = [kind |-> "ok", results |-> 0]
    /\ error = "IndexError"
    /\ pc = "aborted"

----------------------------------------------------------------------------
(* The scorer, checked under Spec on the embeddings the endpoint returned *)

Scored == pc \in {"report", "done"} \/ (pc = "aborted" /\ text_embedding # <<>>)

\* C4: whenever the two vectors differ in length, empty and one-element
\* vectors included, the scorer raises its dimension error (numpy's
\* ValueError) and no scalar is returned.
C4_DimensionMismatch ==
    (Scored /\ Len(image_embedding[1]) # Len(text_embedding[1])) =>
        /\ pc = "aborted"
        /\ error = "ValueError"
        /\ similarity = <<>>
        /\ stdout = <<>>
        /\ cosine_similarity(text_embedding[1], image_embedding[1]).error
             = "ValueError"

\* an empty vector was scored against a one-element vector
C4_Witness ==
    /\ Scored
    /\ Len(image_embedding[1]) = 0
    /\ Len(text_embedding[1]) = 1
    /\ error = "ValueError"

\* C5: the score of (a, b) equals the score of (b, a) for vectors of equal
\* length.
C5_Symmetric ==
    similarity # <<>> =>
        cosine_similarity(text_embedding[1], image_embedding[1])
            = [error |-> "none", value |-> similarity[1]]

\* two different vectors of equal length were scored, with a non-zero result
C5_Witness ==
    /\ similarity # <<>>
    /\ image_embedding # text_embedding
    /\ Len(image_embedding[1]) = 2
    /\ similarity[1] # 0

SumSquares(v) == LET sq == [i \in 1..Len(v) |-> v[i] * v[i]]
                 IN  SumProducts(sq, [i \in 1..Len(v) |-> 1], Len(v))

UnitNorm(v) == SumSquares(v) = ONE

\* C6: a unit-normalized vector scored against itself gives 1.0.
C6_UnitSelfScore ==
    (similarity # <<>> /\ image_embedding = text_embedding
       /\ UnitNorm(image_embedding[1]))
    => similarity[1] = ONE

\* a unit vector with two non-zero components was scored against itself
C6_Witness ==
    /\ similarity # <<>>
    /\ image_embedding = text_embedding
    /\ UnitNorm(image_embedding[1])
    /\ Len(image_embedding[1]) = 2

RECURSIVE RefDot(_, _)
RefDot(a, b) ==
    IF a = <<>> THEN 0 ELSE Head(a) * Head(b) + RefDot(Tail(a), Tail(b))

====
